---- MODULE Spec2Model ----
(***************************************************************************)
(* bin/generate.py of stackstorm-netbox: one run of main(), which fetches  *)
(* the NetBox OpenAPI v3 schema, synthesizes the actions (get_actions),    *)
(* deletes the generated .yaml files and writes the new ones.              *)
(*                                                                         *)
(* A Python str is a sequence of one-character strings, so that replace,   *)
(* strip, split, join, endswith and `in` are computed as Python computes   *)
(* them.  A dict key that may be missing, or a value that may be None, is  *)
(* a sequence of length 0 (missing) or 1 (present).  A dict whose order    *)
(* the code iterates is a sequence of its items.                           *)
(***************************************************************************)
EXTENDS Integers, Sequences, FiniteSets, TLC

VARIABLES
  cli,                      \* the command line: --host value (or none), --no-verify-ssl passed
  args,                     \* main: argparse's namespace
  host,                     \* main: host
  request,                  \* the GET that requests.get issued (none before)
  response,                 \* main: the JSON document of the response, as received
  spec,                     \* main: response.json(), the object get_actions works on
  main_actions,             \* main: actions (none until get_actions has returned)
  version,                  \* main: version
  dir,                      \* ACTIONS_DIR: file name -> content
  dir0,                     \* ACTIONS_DIR as it was when the run started (history)
  exit_code,                \* the exit status of the process (none while it runs)
  pc,                       \* the statement the run is at
  actions,                  \* get_actions: actions
  deferred_detail_gets,     \* get_actions: deferred_detail_gets
  pi,                       \* get_actions: position in spec['paths'].items()
  mi,                       \* get_actions: position in path_spec.items()
  di,                       \* get_actions: position in deferred_detail_gets
  path,                     \* get_actions: path
  path_parts,               \* get_actions: path_parts
  method,                   \* get_actions: method
  action_name,              \* get_actions: action_name
  action,                   \* get_actions: action
  emitted,                  \* history: every execution of actions[action_name] = action
  current_actions_listing,  \* delete_actions: the items of os.listdir still to visit
  wi                        \* write_actions: position in actions.items()

vars ==
  <<cli, args, host, request, response, spec, main_actions, version, dir, dir0,
    exit_code, pc, actions, deferred_detail_gets, pi, mi, di, path, path_parts,
    method, action_name, action, emitted, current_actions_listing, wi>>

(* Bound of the model: the number of paths of a fetched schema. *)
MaxPaths == 2

---------------------------------------------------------------------------
(* Missing keys and None. *)
None == <<>>
Some(v) == <<v>>
IsSome(o) == Len(o) > 0
Val(o) == o[1]

---------------------------------------------------------------------------
(* Python str methods, on sequences of characters. *)

StartsWithAt(s, i, pat) ==
  /\ i + Len(pat) - 1 <= Len(s)
  /\ SubSeq(s, i, i + Len(pat) - 1) = pat

RECURSIVE ReplaceFrom(_, _, _, _)
ReplaceFrom(s, i, old, new) ==
  IF i > Len(s) THEN <<>>
  ELSE IF StartsWithAt(s, i, old)
       THEN new \o ReplaceFrom(s, i + Len(old), old, new)
       ELSE <<s[i]>> \o ReplaceFrom(s, i + 1, old, new)

\* s.replace(old, new), old not empty: every occurrence, left to right
replace(s, old, new) == ReplaceFrom(s, 1, old, new)

\* pat in s
contains(s, pat) == \E i \in 1..Len(s) : StartsWithAt(s, i, pat)

startswith(s, pre) == StartsWithAt(s, 1, pre)

endswith(s, suf) ==
  /\ Len(suf) <= Len(s)
  /\ SubSeq(s, Len(s) - Len(suf) + 1, Len(s)) = suf

RECURSIVE lstrip(_, _)
lstrip(s, c) == IF s # <<>> /\ s[1] = c THEN lstrip(Tail(s), c) ELSE s

RECURSIVE rstrip(_, _)
rstrip(s, c) ==
  IF s # <<>> /\ s[Len(s)] = c THEN rstrip(SubSeq(s, 1, Len(s) - 1), c) ELSE s

strip(s, c) == rstrip(lstrip(s, c), c)

RECURSIVE SplitFrom(_, _, _)
SplitFrom(s, sep, cur) ==
  IF s = <<>> THEN <<cur>>
  ELSE IF s[1] = sep
       THEN <<cur>> \o SplitFrom(Tail(s), sep, <<>>)
       ELSE SplitFrom(Tail(s), sep, Append(cur, s[1]))

\* s.split(sep), sep one character
split(s, sep) == SplitFrom(s, sep, <<>>)

RECURSIVE join(_, _)
join(parts, sep) ==
  IF parts = <<>> THEN <<>>
  ELSE IF Len(parts) = 1 THEN parts[1]
       ELSE parts[1] \o sep \o join(Tail(parts), sep)

LowerCase == <<"a", "b", "c", "d", "e", "f", "g", "h", "i", "j", "k", "l", "m", "n", "o", "p", "q", "r", "s", "t", "u", "v", "w", "x", "y", "z">>
UpperCase == <<"A", "B", "C", "D", "E", "F", "G", "H", "I", "J", "K", "L", "M", "N", "O", "P", "Q", "R", "S", "T", "U", "V", "W", "X", "Y", "Z">>

upper(c) ==
  IF \E k \in 1..Len(LowerCase) : LowerCase[k] = c
  THEN UpperCase[CHOOSE k \in 1..Len(LowerCase) : LowerCase[k] = c]
  ELSE c

lower(c) ==
  IF \E k \in 1..Len(UpperCase) : UpperCase[k] = c
  THEN LowerCase[CHOOSE k \in 1..Len(UpperCase) : UpperCase[k] = c]
  ELSE c

\* s.capitalize()
capitalize(s) ==
  [k \in 1..Len(s) |-> IF k = 1 THEN upper(s[k]) ELSE lower(s[k])]

InSeq(x, s) == \E k \in 1..Len(s) : s[k] = x

---------------------------------------------------------------------------
(* The verbs and names the code compares with. *)
GET == <<"g", "e", "t">>
POST == <<"p", "o", "s", "t">>
PUT == <<"p", "u", "t">>
PATCH == <<"p", "a", "t", "c", "h">>
DELETE == <<"d", "e", "l", "e", "t", "e">>
OPTIONS == <<"o", "p", "t", "i", "o", "n", "s">>
PARAMETERS == <<"p", "a", "r", "a", "m", "e", "t", "e", "r", "s">>
ID == <<"i", "d">>
TAGS == <<"t", "a", "g", "s">>
ID_PLACEHOLDER == <<"{", "i", "d", "}">>
ID_TEMPLATE == <<"{", "{", " ", "i", "d", " ", "}", "}">>

---------------------------------------------------------------------------
(* sanitize_parameters, one parameter: the dict is changed in place. *)
sanitize_parameter(parameter) ==
  LET p1 == IF parameter.name = TAGS
            THEN [parameter EXCEPT !.description = Some(<<"A", "r", "r", "a", "y", " ", "o", "f", " ", "t", "a", "g", " ", "s", "t", "r", "i", "n", "g", "s">>)]
            ELSE parameter
  IN IF IsSome(p1.schema)
     THEN IF Val(p1.schema).type = "number"
          THEN [p1 EXCEPT !.type = Some("integer")]
          ELSE p1
     ELSE IF Val(p1.type) = "number"
          THEN [p1 EXCEPT !.type = Some("integer")]
          ELSE p1

RECURSIVE sanitize_parameters(_)
sanitize_parameters(parameters) ==
  IF parameters = <<>> THEN <<>>
  ELSE <<sanitize_parameter(parameters[1])>> \o sanitize_parameters(Tail(parameters))

\* the dict parse_component_properties builds of one property
component_parameter(name, data, required) ==
  [name |-> name,
   type |-> Some(IF IsSome(data.type) THEN Val(data.type) ELSE "object"),
   description |->
     Some(IF IsSome(data.title) THEN Val(data.title)
          ELSE IF IsSome(data.description) THEN Val(data.description)
          ELSE capitalize(replace(name, <<"_">>, <<" ">>))),
   required |-> Some(InSeq(name, required)),
   schema |-> None]

\* a faulty variant: a read-only property is not skipped
RECURSIVE component_parameters_keep_readonly(_, _)
component_parameters_keep_readonly(properties, required) ==
  IF properties = <<>> THEN <<>>
  ELSE <<component_parameter(properties[1].name, properties[1].data, required)>>
       \o component_parameters_keep_readonly(Tail(properties), required)

\* the loop of parse_component_properties
RECURSIVE component_parameters(_, _)
component_parameters(properties, required) ==
  IF properties = <<>> THEN <<>>
  ELSE IF properties[1].data.readOnly = Some(TRUE)
       THEN component_parameters(Tail(properties), required)
       ELSE <<component_parameter(properties[1].name, properties[1].data, required)>>
            \o component_parameters(Tail(properties), required)

parse_component_properties(properties, required) ==
  sanitize_parameters(component_parameters(properties, required))

\* a faulty variant: the patch override is forgotten
required_of_schema_only(m, schema) ==
  IF IsSome(schema.required) THEN Val(schema.required) ELSE <<>>

\* required = ['id'] if method == 'patch' else schema['required'], [] on KeyError
required_of(m, schema) ==
  IF m = PATCH THEN <<ID>>
  ELSE IF IsSome(schema.required) THEN Val(schema.required) ELSE <<>>

\* path = path.replace('/api', '')
strip_api(p) == replace(p, <<"/", "a", "p", "i">>, <<>>)

RECURSIVE hyphens_to_underscores(_)
hyphens_to_underscores(parts) ==
  IF parts = <<>> THEN <<>>
  ELSE <<replace(parts[1], <<"-">>, <<"_">>)>> \o hyphens_to_underscores(Tail(parts))

\* path_parts, of the path without its /api
path_parts_of(p) ==
  hyphens_to_underscores(split(strip(replace(p, <<"/", "{", "i", "d", "}">>, <<>>), "/"), "/"))

\* f'{method}.{".".join(path_parts)}'
action_name_of(m, parts) == m \o <<".">> \o join(parts, <<".">>)

\* if '{id}' in path: path = path.replace('{id}', '{{ id }}')
template_path(p) ==
  IF contains(p, ID_PLACEHOLDER) THEN replace(p, ID_PLACEHOLDER, ID_TEMPLATE) ELSE p

\* ref.split('/')[-1]
ref_name_of(ref) == LET parts == split(ref, "/") IN parts[Len(parts)]

\* path.endswith('/{{ id }}')
is_detail_path(p) == endswith(p, <<"/", "{", "{", " ", "i", "d", " ", "}", "}">>)

\* a faulty variant: the test that the placeholder is in the path is forgotten
is_mid_path_id_no_in_test(p) == ~ endswith(p, <<"/", "{", "{", " ", "i", "d", " ", "}", "}">>)

\* '{{ id }}' in path and not path.endswith('/{{ id }}')
is_mid_path_id(p) == contains(p, ID_TEMPLATE) /\ ~ endswith(p, <<"/", "{", "{", " ", "i", "d", " ", "}", "}">>)

\* the parameter appended for an id
id_parameter(description) ==
  [name |-> ID, required |-> Some(TRUE), description |-> Some(description),
   type |-> Some("integer"), schema |-> None]

\* actions.get(name)
dict_get(d, name) ==
  IF \E k \in 1..Len(d) : d[k].name = name
  THEN Some(d[CHOOSE k \in 1..Len(d) : d[k].name = name].action)
  ELSE None

\* a faulty variant: an entry that is there is kept (setdefault)
dict_setdefault(d, name, a) ==
  IF \E k \in 1..Len(d) : d[k].name = name
  THEN d
  ELSE Append(d, [name |-> name, action |-> a])

\* actions[name] = a: a key that is there keeps its place and gets the new value
dict_set(d, name, a) ==
  IF \E k \in 1..Len(d) : d[k].name = name
  THEN [k \in 1..Len(d) |-> IF d[k].name = name THEN [name |-> name, action |-> a] ELSE d[k]]
  ELSE Append(d, [name |-> name, action |-> a])

\* a faulty variant: parse_args with action='store_true'
store_true(passed) == passed

\* parse_args with action='store_false': True by default, False when the flag is passed
store_false(passed) == IF passed THEN FALSE ELSE TRUE

\* a faulty variant: delete_actions is called after write_actions
main_next_delete_last(label) ==
  CASE label = "fetch" -> "get_actions"
    [] label = "get_actions" -> "write_actions"
    [] label = "write_actions" -> "delete_actions"
    [] label = "delete_actions" -> "done"

\* the order of the calls of main
main_next(label) ==
  CASE label = "fetch" -> "get_actions"
    [] label = "get_actions" -> "delete_actions"
    [] label = "delete_actions" -> "write_actions"
    [] label = "write_actions" -> "done"

---------------------------------------------------------------------------
(* The inputs of a run: the schemas the server may answer with, the        *)
(* command lines, and the contents of ACTIONS_DIR.                         *)

\* a query parameter of an operation
QueryParameter(name, description, schemaType, flatType) ==
  [name |-> name, description |-> description, schema |-> schemaType,
   type |-> flatType, required |-> None]

QP_tags == QueryParameter(TAGS, Some(<<"T", "a", "g", " ", "s", "l", "u", "g">>), Some([type |-> "array"]), None)
QP_latitude == QueryParameter(<<"l", "a", "t", "i", "t", "u", "d", "e">>, None, Some([type |-> "number"]), None)
QP_limit == QueryParameter(<<"l", "i", "m", "i", "t">>, Some(<<"P", "a", "g", "e", " ", "s", "i", "z", "e">>), None, Some("number"))
QP_q == QueryParameter(<<"q">>, Some(<<"S", "e", "a", "r", "c", "h">>), Some([type |-> "string"]), None)

\* an operation of a path
Operation(m, description, operationId, parameters, ref) ==
  [method |-> m,
   method_spec |-> [description |-> description, operationId |-> operationId,
                    parameters |-> parameters, ref |-> ref]]

\* the 'parameters' key of a path
PathParameters ==
  [method |-> PARAMETERS,
   method_spec |-> [description |-> <<>>, operationId |-> <<>>,
                    parameters |-> <<QP_q>>, ref |-> None]]

REF_Site == Some(<<"#", "/", "c", "o", "m", "p", "o", "n", "e", "n", "t", "s", "/", "s", "c", "h", "e", "m", "a", "s", "/", "S", "i", "t", "e">>)
REF_PatchedSite == Some(<<"#", "/", "c", "o", "m", "p", "o", "n", "e", "n", "t", "s", "/", "s", "c", "h", "e", "m", "a", "s", "/", "P", "a", "t", "c", "h", "e", "d", "S", "i", "t", "e">>)
REF_Token == Some(<<"#", "/", "c", "o", "m", "p", "o", "n", "e", "n", "t", "s", "/", "s", "c", "h", "e", "m", "a", "s", "/", "T", "o", "k", "e", "n">>)

PathPool ==
  << [path |-> <<"/", "a", "p", "i", "/", "d", "c", "i", "m", "/", "s", "i", "t", "e", "s", "/">>,
      path_spec |-> << PathParameters,
                       Operation(GET, <<"L", "i", "s", "t", " ", "s", "i", "t", "e", "s">>, <<"d", "c", "i", "m", "_", "s", "i", "t", "e", "s", "_", "l", "i", "s", "t">>, <<QP_tags, QP_latitude>>, None),
                       Operation(POST, <<"C", "r", "e", "a", "t", "e", " ", "s", "i", "t", "e">>, <<"d", "c", "i", "m", "_", "s", "i", "t", "e", "s", "_", "c", "r", "e", "a", "t", "e">>, <<>>, REF_Site),
                       Operation(PATCH, <<"P", "a", "t", "c", "h", " ", "s", "i", "t", "e", "s">>, <<"d", "c", "i", "m", "_", "s", "i", "t", "e", "s", "_", "b", "u", "l", "k", "_", "p", "a", "r", "t", "i", "a", "l", "_", "u", "p", "d", "a", "t", "e">>, <<>>, REF_Site) >>],
     [path |-> <<"/", "a", "p", "i", "/", "d", "c", "i", "m", "/", "s", "i", "t", "e", "s", "/", "{", "i", "d", "}", "/">>,
      path_spec |-> << Operation(GET, <<"G", "e", "t", " ", "s", "i", "t", "e">>, <<"d", "c", "i", "m", "_", "s", "i", "t", "e", "s", "_", "r", "e", "t", "r", "i", "e", "v", "e">>, <<>>, None),
                       Operation(PUT, <<"P", "u", "t", " ", "s", "i", "t", "e">>, <<"d", "c", "i", "m", "_", "s", "i", "t", "e", "s", "_", "u", "p", "d", "a", "t", "e">>, <<>>, REF_Site),
                       Operation(PATCH, <<"P", "a", "t", "c", "h", " ", "s", "i", "t", "e">>, <<"d", "c", "i", "m", "_", "s", "i", "t", "e", "s", "_", "p", "a", "r", "t", "i", "a", "l", "_", "u", "p", "d", "a", "t", "e">>, <<>>, REF_PatchedSite),
                       Operation(DELETE, <<"D", "e", "l", "e", "t", "e", " ", "s", "i", "t", "e">>, <<"d", "c", "i", "m", "_", "s", "i", "t", "e", "s", "_", "d", "e", "s", "t", "r", "o", "y">>, <<>>, None) >>],
     [path |-> <<"/", "a", "p", "i", "/", "d", "c", "i", "m", "/", "s", "i", "t", "e", "s", "/", "{", "i", "d", "}">>,
      path_spec |-> << Operation(GET, <<"S", "i", "t", "e">>, <<"d", "c", "i", "m", "_", "s", "i", "t", "e", "s", "_", "r", "e", "a", "d">>, <<>>, None) >>],
     [path |-> <<"/", "a", "p", "i", "/", "d", "c", "i", "m", "/", "{", "i", "d", "}", "/", "s", "i", "t", "e", "s", "/">>,
      path_spec |-> << Operation(GET, <<"S", "i", "t", "e", "s", " ", "o", "f">>, <<"d", "c", "i", "m", "_", "s", "i", "t", "e", "s", "_", "o", "f">>, <<>>, None),
                       Operation(POST, <<"A", "d", "d", " ", "s", "i", "t", "e">>, <<"d", "c", "i", "m", "_", "s", "i", "t", "e", "s", "_", "a", "d", "d">>, <<>>, REF_Site) >>],
     [path |-> <<"/", "a", "p", "i", "/", "s", "t", "a", "t", "u", "s", "/">>,
      path_spec |-> << Operation(GET, <<"S", "t", "a", "t", "u", "s">>, <<"s", "t", "a", "t", "u", "s", "_", "r", "e", "t", "r", "i", "e", "v", "e">>, <<>>, None),
                       Operation(OPTIONS, <<"O", "p", "t", "i", "o", "n", "s">>, <<"s", "t", "a", "t", "u", "s", "_", "o", "p", "t", "i", "o", "n", "s">>, <<>>, None) >>],
     [path |-> <<"/", "a", "p", "i", "/", "u", "s", "e", "r", "s", "/", "a", "p", "i", "-", "t", "o", "k", "e", "n", "s", "/">>,
      path_spec |-> << Operation(GET, <<"L", "i", "s", "t", " ", "t", "o", "k", "e", "n", "s">>, <<"u", "s", "e", "r", "s", "_", "t", "o", "k", "e", "n", "s", "_", "l", "i", "s", "t">>, <<QP_limit>>, None),
                       Operation(PATCH, <<"P", "a", "t", "c", "h", " ", "t", "o", "k", "e", "n", "s">>, <<"u", "s", "e", "r", "s", "_", "t", "o", "k", "e", "n", "s", "_", "b", "u", "l", "k", "_", "p", "a", "r", "t", "i", "a", "l", "_", "u", "p", "d", "a", "t", "e">>, <<>>, REF_Token),
                       Operation(DELETE, <<"D", "e", "l", "e", "t", "e", " ", "t", "o", "k", "e", "n", "s">>, <<"u", "s", "e", "r", "s", "_", "t", "o", "k", "e", "n", "s", "_", "b", "u", "l", "k", "_", "d", "e", "s", "t", "r", "o", "y">>, <<>>, REF_Token) >>] >>

\* a property of a component schema
Property(name, readOnly, type, title, description) ==
  [name |-> name,
   data |-> [readOnly |-> readOnly, type |-> type, title |-> title,
             description |-> description]]

SiteProperties ==
  << Property(ID, Some(TRUE), Some("integer"), None, None),
     Property(<<"n", "a", "m", "e">>, None, Some("string"), Some(<<"N", "a", "m", "e">>), None),
     Property(<<"s", "t", "a", "t", "u", "s">>, Some(FALSE), None, None, Some(<<"S", "t", "a", "t", "e">>)),
     Property(TAGS, None, Some("array"), None, Some(<<"T", "a", "g", "s">>)),
     Property(<<"l", "a", "t", "i", "t", "u", "d", "e">>, None, Some("number"), None, None),
     Property(<<"t", "i", "m", "e", "_", "z", "o", "n", "e">>, None, Some("string"), None, None),
     Property(<<"c", "r", "e", "a", "t", "e", "d">>, Some(TRUE), Some("string"), None, None) >>

TokenProperties ==
  << Property(ID, None, Some("integer"), None, None),
     Property(<<"k", "e", "y">>, None, Some("string"), None, None),
     Property(<<"l", "a", "s", "t", "_", "u", "s", "e", "d">>, Some(TRUE), Some("string"), None, None) >>

\* components.schemas with the required lists given
Components(siteRequired, patchedRequired, tokenRequired) ==
  (<<"S", "i", "t", "e">> :> [properties |-> SiteProperties, required |-> siteRequired])
  @@ (<<"P", "a", "t", "c", "h", "e", "d", "S", "i", "t", "e">> :> [properties |-> SiteProperties, required |-> patchedRequired])
  @@ (<<"T", "o", "k", "e", "n">> :> [properties |-> TokenProperties, required |-> tokenRequired])

ComponentVariants ==
  { Components(Some(<<<<"n", "a", "m", "e">>, TAGS>>), None, Some(<<>>)),
    Components(None, Some(<<<<"n", "a", "m", "e">>>>), Some(<<ID, <<"k", "e", "y">>>>)) }

\* the orders of at most MaxPaths paths of the pool, no path twice
PathOrders ==
  UNION { { f \in [1..n -> 1..Len(PathPool)] :
              \A a, b \in 1..n : a # b => f[a] # f[b] } : n \in 0..MaxPaths }

Schemas ==
  { [paths |-> [k \in 1..Len(f) |-> PathPool[f[k]]],
     components |-> [schemas |-> c],
     info |-> [version |-> <<"3", ".", "6", ".", "9", " ", "(", "3", ".", "6", ")">>]] :
    f \in PathOrders, c \in ComponentVariants }

\* no document: the value of spec and of response before the fetch
NoDocument ==
  [paths |-> <<>>, components |-> [schemas |-> <<>>], info |-> [version |-> <<>>]]

CommandLines ==
  { [host |-> h, no_verify_ssl |-> f] :
    h \in {None, Some(<<"h", "t", "t", "p", ":", "/", "/", "n", "b", "/">>)}, f \in BOOLEAN }

\* a file that this run did not write
OldFile == <<>>

InitialDirs ==
  { <<>>,
    (<<"g", "e", "t", ".", "d", "c", "i", "m", ".", "s", "i", "t", "e", "s", ".", "y", "a", "m", "l">> :> OldFile) @@ (<<"o", "l", "d", ".", "y", "a", "m", "l">> :> OldFile)
      @@ (<<"R", "E", "A", "D", "M", "E", ".", "m", "d">> :> OldFile) }

---------------------------------------------------------------------------
(* The run. *)

Init ==
  /\ cli \in CommandLines
  /\ dir \in InitialDirs
  /\ dir0 = dir
  /\ args = [host |-> <<>>, no_verify_ssl |-> TRUE]
  /\ host = <<>>
  /\ request = None
  /\ response = NoDocument
  /\ spec = NoDocument
  /\ main_actions = None
  /\ version = <<>>
  /\ exit_code = None
  /\ pc = "parse_args"
  /\ actions = <<>>
  /\ deferred_detail_gets = <<>>
  /\ pi = 1
  /\ mi = 1
  /\ di = 1
  /\ path = <<>>
  /\ path_parts = <<>>
  /\ method = <<>>
  /\ action_name = <<>>
  /\ action = None
  /\ emitted = <<>>
  /\ current_actions_listing = {}
  /\ wi = 1

\* the variables of get_actions
locals ==
  <<actions, deferred_detail_gets, pi, mi, di, path, path_parts, method,
    action_name, action, emitted>>

\* the variables of main before get_actions
fetched == <<cli, args, host, request, response>>

\* the variables of main after get_actions
written == <<main_actions, version, dir, current_actions_listing, wi>>

\* parser.parse_args() and host = str(args.host).rstrip('/')
ParseArgs ==
  /\ pc = "parse_args"
  /\ LET h == IF IsSome(cli.host) THEN Val(cli.host) ELSE <<"h", "t", "t", "p", "s", ":", "/", "/", "d", "e", "m", "o", ".", "n", "e", "t", "b", "o", "x", ".", "d", "e", "v">>
     IN /\ args' = [host |-> h, no_verify_ssl |-> store_false(cli.no_verify_ssl)]
        /\ host' = rstrip(h, "/")
  /\ pc' = "fetch"
  /\ UNCHANGED <<cli, request, response, spec, dir0, exit_code, locals, written>>

\* the GET of main
the_request ==
  Some([url |-> host \o <<"/", "a", "p", "i", "/", "s", "c", "h", "e", "m", "a", "?", "f", "o", "r", "m", "a", "t", "=", "j", "s", "o", "n">>, verify |-> args.no_verify_ssl])

\* requests.get, raise_for_status and response.json() succeed
FetchSchema ==
  /\ pc = "fetch"
  /\ request' = the_request
  /\ \E s \in Schemas : response' = s /\ spec' = s
  /\ pc' = main_next("fetch")
  /\ UNCHANGED <<cli, args, host, dir0, exit_code, locals, written>>

\* requests.RequestException: the message is printed and exit(1)
FetchFails ==
  /\ pc = "fetch"
  /\ request' = the_request
  /\ exit_code' = Some(1)
  /\ pc' = "exited"
  /\ UNCHANGED <<cli, args, host, response, spec, dir0, locals, written>>

\* get_actions is entered: actions = {}, deferred_detail_gets = []
GetActions ==
  /\ pc = "get_actions"
  /\ actions' = <<>>
  /\ deferred_detail_gets' = <<>>
  /\ pi' = 1
  /\ pc' = "for_path"
  /\ UNCHANGED <<fetched, spec, dir0, exit_code, written, mi, di, path, path_parts,
                 method, action_name, action, emitted>>

\* the next path of spec['paths'].items()
ForPath ==
  /\ pc = "for_path"
  /\ pi <= Len(spec.paths)
  /\ path' = strip_api(spec.paths[pi].path)
  /\ path_parts' = path_parts_of(path')
  /\ mi' = 1
  /\ pc' = "for_method"
  /\ UNCHANGED <<fetched, spec, dir0, exit_code, written, actions,
                 deferred_detail_gets, pi, di, method, action_name, action, emitted>>

\* the paths are exhausted
ForPathEnd ==
  /\ pc = "for_path"
  /\ pi > Len(spec.paths)
  /\ di' = 1
  /\ pc' = "deferred"
  /\ UNCHANGED <<fetched, spec, dir0, exit_code, written, actions,
                 deferred_detail_gets, pi, mi, path, path_parts, method,
                 action_name, action, emitted>>

\* the methods of the path are exhausted
ForMethodEnd ==
  /\ pc = "for_method"
  /\ mi > Len(spec.paths[pi].path_spec)
  /\ pi' = pi + 1
  /\ pc' = "for_path"
  /\ UNCHANGED <<fetched, spec, dir0, exit_code, written, actions,
                 deferred_detail_gets, mi, di, path, path_parts, method,
                 action_name, action, emitted>>

\* if method == 'parameters': continue
SkipParameters ==
  /\ pc = "for_method"
  /\ mi <= Len(spec.paths[pi].path_spec)
  /\ spec.paths[pi].path_spec[mi].method = PARAMETERS
  /\ method' = PARAMETERS
  /\ mi' = mi + 1
  /\ UNCHANGED <<fetched, spec, dir0, exit_code, written, actions,
                 deferred_detail_gets, pi, di, path, path_parts, action_name,
                 action, emitted, pc>>

\* the action dict as built before the branches on the method
new_action(m, method_spec, p) ==
  LET a == [description |-> method_spec.description,
            parameters |-> <<>>,
            endpoint_uri |-> p,
            immutable |-> TRUE,
            verb |-> m,
            get_detail_route_eligible |-> TRUE]
  IN IF IsSome(method_spec.ref)
     THEN LET schema == spec.components.schemas[ref_name_of(Val(method_spec.ref))]
          IN [a EXCEPT !.parameters =
                parse_component_properties(schema.properties, required_of(m, schema))]
     ELSE a

\* one (path, method) pair: the body of the loop over path_spec.items()
ProcessMethod ==
  /\ pc = "for_method"
  /\ mi <= Len(spec.paths[pi].path_spec)
  /\ spec.paths[pi].path_spec[mi].method # PARAMETERS
  /\ LET m == spec.paths[pi].path_spec[mi].method
         method_spec == spec.paths[pi].path_spec[mi].method_spec
         name == action_name_of(m, path_parts)
         p == template_path(path)
         a0 == new_action(m, method_spec, p)
         isGet == m = GET
         isList == isGet /\ endswith(method_spec.operationId, <<"_", "l", "i", "s", "t">>)
         isDetail == isGet /\ ~ isList /\ is_detail_path(p)
         isMid == isGet /\ ~ isList /\ ~ is_detail_path(p) /\ is_mid_path_id(p)
         isWrite == m \in {DELETE, PUT, PATCH}
         isPost == m = POST /\ ~ contains(p, ID_TEMPLATE)
         a1 == IF isList
               THEN [a0 EXCEPT !.parameters = sanitize_parameters(method_spec.parameters)]
               ELSE IF isMid
               THEN [a0 EXCEPT !.parameters = Append(@, id_parameter(<<"I", "D", " ", "o", "f", " ", "t", "h", "e", " ", "o", "b", "j", "e", "c", "t", ".">>)),
                               !.get_detail_route_eligible = FALSE]
               ELSE a0
         a2 == IF isWrite
               THEN [a1 EXCEPT !.parameters =
                       Append(@, id_parameter(<<"I", "D", " ", "o", "f", " ", "t", "h", "e", " ", "o", "b", "j", "e", "c", "t", " ", "t", "o", " ">> \o m \o <<".">>))]
               ELSE a1
         emits == isList \/ isMid \/ isWrite \/ isPost
     IN /\ method' = m
        /\ action_name' = name
        /\ path' = p
        /\ action' = Some(a2)
        /\ spec' = IF isList
                   THEN [spec EXCEPT !.paths[pi].path_spec[mi].method_spec.parameters =
                           sanitize_parameters(@)]
                   ELSE spec
        /\ deferred_detail_gets' =
             IF isDetail THEN Append(deferred_detail_gets, name)
             ELSE deferred_detail_gets
        /\ actions' = IF emits THEN dict_set(actions, name, a2) ELSE actions
        /\ emitted' = IF emits
                      THEN Append(emitted, [pi |-> pi, mi |-> mi, name |-> name,
                                            action |-> a2])
                      ELSE emitted
  /\ mi' = mi + 1
  /\ UNCHANGED <<fetched, dir0, exit_code, written, pi, di, path_parts, pc>>

\* a deferred detail GET whose name is in actions
DeferredFound ==
  /\ pc = "deferred"
  /\ di <= Len(deferred_detail_gets)
  /\ IsSome(dict_get(actions, deferred_detail_gets[di]))
  /\ di' = di + 1
  /\ UNCHANGED <<fetched, spec, dir0, exit_code, written, actions,
                 deferred_detail_gets, pi, mi, path, path_parts, method,
                 action_name, action, emitted, pc>>

\* raise Exception("Unable to find list action ..."): nothing catches it
DeferredMissing ==
  /\ pc = "deferred"
  /\ di <= Len(deferred_detail_gets)
  /\ ~ IsSome(dict_get(actions, deferred_detail_gets[di]))
  /\ exit_code' = Some(1)
  /\ pc' = "raised_get_actions"
  /\ UNCHANGED <<fetched, spec, dir0, written, locals>>

\* return actions
GetActionsReturn ==
  /\ pc = "deferred"
  /\ di > Len(deferred_detail_gets)
  /\ main_actions' = Some(actions)
  /\ pc' = main_next("get_actions")
  /\ UNCHANGED <<fetched, spec, dir0, exit_code, version, dir,
                 current_actions_listing, wi, locals>>

\* delete_actions is entered: os.listdir(ACTIONS_DIR)
ListDir ==
  /\ pc = "delete_actions"
  /\ current_actions_listing' = DOMAIN dir
  /\ pc' = "delete_loop"
  /\ UNCHANGED <<fetched, spec, dir0, exit_code, main_actions, version, dir, wi,
                 locals>>

\* one item of the listing, in the order of the file system
DeleteItem ==
  /\ pc = "delete_loop"
  /\ \E item \in current_actions_listing :
       /\ current_actions_listing' = current_actions_listing \ {item}
       /\ dir' = IF endswith(item, <<".", "y", "a", "m", "l">>)
                 THEN [n \in DOMAIN dir \ {item} |-> dir[n]]
                 ELSE dir
  /\ UNCHANGED <<fetched, spec, dir0, exit_code, main_actions, version, wi,
                 locals, pc>>

\* the listing is exhausted
DeleteEnd ==
  /\ pc = "delete_loop"
  /\ current_actions_listing = {}
  /\ pc' = main_next("delete_actions")
  /\ UNCHANGED <<fetched, spec, dir0, exit_code, written, locals>>

\* version = spec['info']['version'].split(' ')[0], then write_actions opens
\* action-template.jinja2
OpenTemplate ==
  /\ pc = "write_actions"
  /\ version' = split(spec.info.version, " ")[1]
  /\ wi' = 1
  /\ pc' = "write_loop"
  /\ UNCHANGED <<fetched, spec, dir0, exit_code, main_actions, dir,
                 current_actions_listing, locals>>

\* the template cannot be opened: the exception ends the run
OpenTemplateFails ==
  /\ pc = "write_actions"
  /\ version' = split(spec.info.version, " ")[1]
  /\ exit_code' = Some(1)
  /\ pc' = "raised_write_actions"
  /\ UNCHANGED <<fetched, spec, dir0, main_actions, dir, current_actions_listing,
                 wi, locals>>

\* template.render(template_vars): the text is a function of the variables
rendered(v, name, a) == Some([version |-> v, action_name |-> name, action |-> a])

\* one item of actions.items() is rendered and written to <name>.yaml
WriteAction ==
  /\ pc = "write_loop"
  /\ wi <= Len(Val(main_actions))
  /\ LET e == Val(main_actions)[wi]
         f == e.name \o <<".", "y", "a", "m", "l">>
     IN dir' = [n \in DOMAIN dir \cup {f} |->
                  IF n = f THEN rendered(version, e.name, e.action) ELSE dir[n]]
  /\ wi' = wi + 1
  /\ UNCHANGED <<fetched, spec, dir0, exit_code, main_actions, version,
                 current_actions_listing, locals, pc>>

\* the actions are exhausted: 'Wrote n actions' is printed
WriteEnd ==
  /\ pc = "write_loop"
  /\ wi > Len(Val(main_actions))
  /\ pc' = main_next("write_actions")
  /\ UNCHANGED <<fetched, spec, dir0, exit_code, written, locals>>

\* main returns: the process exits with status 0
Exit ==
  /\ pc = "done"
  /\ exit_code' = Some(0)
  /\ pc' = "exited"
  /\ UNCHANGED <<fetched, spec, dir0, written, locals>>

Next ==
  \/ ParseArgs
  \/ FetchSchema
  \/ FetchFails
  \/ GetActions
  \/ ForPath
  \/ ForPathEnd
  \/ ForMethodEnd
  \/ SkipParameters
  \/ ProcessMethod
  \/ DeferredFound
  \/ DeferredMissing
  \/ GetActionsReturn
  \/ ListDir
  \/ DeleteItem
  \/ DeleteEnd
  \/ OpenTemplate
  \/ OpenTemplateFails
  \/ WriteAction
  \/ WriteEnd
  \/ Exit

Spec == Init /\ [][Next]_vars

---------------------------------------------------------------------------
(* What the properties below speak of. *)

\* the (path, method) pair an emission came from
OpOf(r) == spec.paths[r.pi].path_spec[r.mi]
PathOf(r) == spec.paths[r.pi].path

\* the pairs of the schema
Pairs ==
  { pm \in (1..Len(spec.paths)) \X (1..4) : pm[2] <= Len(spec.paths[pm[1]].path_spec) }

\* the pair has been through the body of the loop
Processed(pm) ==
  CASE pc \in {"parse_args", "fetch", "get_actions"} -> FALSE
    [] pc = "for_path" -> pm[1] < pi
    [] pc = "for_method" -> pm[1] < pi \/ (pm[1] = pi /\ pm[2] < mi)
    [] OTHER -> TRUE

IsGetNotList(pm) ==
  LET o == spec.paths[pm[1]].path_spec[pm[2]]
  IN o.method = GET /\ ~ endswith(o.method_spec.operationId, <<"_", "l", "i", "s", "t">>)

IsGetList(pm) ==
  LET o == spec.paths[pm[1]].path_spec[pm[2]]
  IN o.method = GET /\ endswith(o.method_spec.operationId, <<"_", "l", "i", "s", "t">>)

\* the name by the naming rule: only the leading /api is stripped
RuleName(verb, p) ==
  action_name_of(verb,
    path_parts_of(IF startswith(p, <<"/", "a", "p", "i">>) THEN SubSeq(p, 5, Len(p)) ELSE p))

\* the name as get_actions derives it
DerivedName(pm) ==
  action_name_of(spec.paths[pm[1]].path_spec[pm[2]].method,
                 path_parts_of(strip_api(spec.paths[pm[1]].path)))

\* a get that is no list, on /api/<segments>/{id}/
IsSlashDetailGet(pm) ==
  /\ IsGetNotList(pm)
  /\ startswith(spec.paths[pm[1]].path, <<"/", "a", "p", "i", "/">>)
  /\ endswith(spec.paths[pm[1]].path, <<"/", "{", "i", "d", "}", "/">>)

\* C1: a get that is no list on /api/<segments>/{id}/ is deferred: processing it
\* inserts no entry into actions and puts its name on the deferred list, and a
\* collection is returned only if it holds the entry get.<segments>.
C1_SlashDetailGetDeferred ==
  \A pm \in Pairs :
    (IsSlashDetailGet(pm) /\ Processed(pm)) =>
      /\ \A k \in 1..Len(emitted) : <<emitted[k].pi, emitted[k].mi>> # pm
      /\ InSeq(RuleName(GET, spec.paths[pm[1]].path), deferred_detail_gets)
      /\ IsSome(main_actions) =>
           IsSome(dict_get(Val(main_actions), RuleName(GET, spec.paths[pm[1]].path)))

\* a get that is no list and whose path ends in the id placeholder
IsDeferredGet(pm) ==
  IsGetNotList(pm) /\ endswith(spec.paths[pm[1]].path, ID_PLACEHOLDER)

\* a list get has produced an entry under the name
ListProduced(name) ==
  \E k \in 1..Len(emitted) :
    emitted[k].name = name /\ IsGetList(<<emitted[k].pi, emitted[k].mi>>)

\* C2: get_actions returns a collection only if every deferred detail get has a
\* list get that produced an entry under its name, and it raises only if some
\* deferred detail get has none.
C2_RaisesIffNoListAction ==
  /\ IsSome(main_actions) =>
       \A pm \in Pairs : IsDeferredGet(pm) => ListProduced(DerivedName(pm))
  /\ pc = "raised_get_actions" =>
       \E pm \in Pairs : IsDeferredGet(pm) /\ ~ ListProduced(DerivedName(pm))

\* C3: the schema is never mutated: the object get_actions works on equals the
\* document as it was received.
C3_SchemaNeverMutated == spec = response

\* C4: the name of every emitted action is the verb, a dot and the dot-joined
\* segments of the path with exactly its leading /api stripped.
C4_NameStripsLeadingApiOnly ==
  \A k \in 1..Len(emitted) :
    emitted[k].name = RuleName(OpOf(emitted[k]).method, PathOf(emitted[k]))

\* C5 as stated: the request verifies TLS exactly when --no-verify-ssl is passed.
C5_PolarityInverted ==
  IsSome(request) => Val(request).verify = cli.no_verify_ssl

\* C5, amended: the request verifies TLS exactly when --no-verify-ssl is not
\* passed.
C5_PolarityAsNamed ==
  IsSome(request) => Val(request).verify = ~ cli.no_verify_ssl

C5_Witness ==
  IsSome(request) /\ cli.no_verify_ssl /\ Val(request).verify = FALSE

\* the parameters of a patch action: the last is the integer id, required, and
\* no parameter of another name is required
PatchParametersOk(ps) ==
  /\ ps # <<>>
  /\ ps[Len(ps)].name = ID
  /\ ps[Len(ps)].type = Some("integer")
  /\ ps[Len(ps)].required = Some(TRUE)
  /\ \A j \in 1..Len(ps) : ps[j].name # ID => ps[j].required = Some(FALSE)
  /\ {ps[j].name : j \in {i \in 1..Len(ps) : ps[i].required = Some(TRUE)}} = {ID}

\* C6: in every emitted patch action, whatever the required list of the
\* component, the required parameters are exactly those named id, and the last
\* parameter is id, an integer, required.
C6_PatchRequiresOnlyId ==
  /\ \A k \in 1..Len(emitted) :
       emitted[k].action.verb = PATCH => PatchParametersOk(emitted[k].action.parameters)
  /\ \A k \in 1..Len(actions) :
       actions[k].action.verb = PATCH => PatchParametersOk(actions[k].action.parameters)
  /\ IsSome(main_actions) =>
       \A k \in 1..Len(Val(main_actions)) :
         Val(main_actions)[k].action.verb = PATCH =>
           PatchParametersOk(Val(main_actions)[k].action.parameters)

\* the component a pair's request body references
ComponentOf(o) == spec.components.schemas[ref_name_of(Val(o.method_spec.ref))]

\* a patch was emitted whose component requires name, and name is a parameter
C6_Witness ==
  \E k \in 1..Len(emitted) :
    /\ emitted[k].action.verb = PATCH
    /\ IsSome(OpOf(emitted[k]).method_spec.ref)
    /\ IsSome(ComponentOf(OpOf(emitted[k])).required)
    /\ InSeq(<<"n", "a", "m", "e">>, Val(ComponentOf(OpOf(emitted[k])).required))
    /\ \E j \in 1..Len(emitted[k].action.parameters) :
         emitted[k].action.parameters[j].name = <<"n", "a", "m", "e">>

\* the names of the properties the component marks readOnly
ReadOnlyNames(c) ==
  {c.properties[j].name :
     j \in {i \in 1..Len(c.properties) : c.properties[i].data.readOnly = Some(TRUE)}}

\* an emission of a post, put, patch or delete with a request body
HasBody(r) ==
  /\ OpOf(r).method \in {POST, PUT, PATCH, DELETE}
  /\ IsSome(OpOf(r).method_spec.ref)

\* C7 as stated: no parameter of an emitted action with a request body carries
\* the name of a property the component marks readOnly.
C7_NoReadOnlyName ==
  \A k \in 1..Len(emitted) :
    HasBody(emitted[k]) =>
      \A j \in 1..Len(emitted[k].action.parameters) :
        emitted[k].action.parameters[j].name
          \notin ReadOnlyNames(ComponentOf(OpOf(emitted[k])))

\* C7, amended: the only parameter that carries the name of a readOnly property
\* is the id parameter appended last for put, patch and delete.
C7_NoReadOnlyNameButAppendedId ==
  \A k \in 1..Len(emitted) :
    HasBody(emitted[k]) =>
      LET ps == emitted[k].action.parameters
          m == OpOf(emitted[k]).method
      IN \A j \in 1..Len(ps) :
           ps[j].name \in ReadOnlyNames(ComponentOf(OpOf(emitted[k]))) =>
             /\ m \in {PUT, PATCH, DELETE}
             /\ j = Len(ps)
             /\ ps[j] = id_parameter(<<"I", "D", " ", "o", "f", " ", "t", "h", "e", " ", "o", "b", "j", "e", "c", "t", " ", "t", "o", " ">> \o m \o <<".">>)

\* a put was emitted whose component has the readOnly property created and a
\* property that is a parameter
C7_Witness ==
  \E k \in 1..Len(emitted) :
    /\ HasBody(emitted[k])
    /\ OpOf(emitted[k]).method = PUT
    /\ <<"c", "r", "e", "a", "t", "e", "d">> \in ReadOnlyNames(ComponentOf(OpOf(emitted[k])))
    /\ Len(emitted[k].action.parameters) > 1

\* C8: the directory changes only once get_actions has returned, by deletions
\* in delete_actions and then by writes in write_actions, no deletion after
\* write_actions has begun; get_actions runs after the request; a failed fetch
\* exits with 1 and a raise of get_actions ends the run with an error, both
\* with the directory as it was.
C8_RunOrder ==
  [][ /\ dir' # dir => IsSome(main_actions) /\ pc \in {"delete_loop", "write_loop"}
      /\ pc = "delete_loop" =>
           \A n \in DOMAIN dir' : n \in DOMAIN dir /\ dir'[n] = dir[n]
      /\ pc = "write_loop" => DOMAIN dir \subseteq DOMAIN dir'
      /\ pc \in {"write_actions", "write_loop"} =>
           pc' \notin {"delete_actions", "delete_loop"}
      /\ pc' = "for_path" => IsSome(request')
      /\ (pc = "fetch" /\ pc' = "exited") =>
           exit_code' = Some(1) /\ dir' = dir0 /\ main_actions' = None
      /\ pc' = "raised_get_actions" =>
           exit_code' = Some(1) /\ dir' = dir0 /\ main_actions' = None
    ]_vars

\* a run that ended with old.yaml deleted and a file written
C8_Witness ==
  /\ pc = "exited"
  /\ exit_code = Some(0)
  /\ <<"o", "l", "d", ".", "y", "a", "m", "l">> \in DOMAIN dir0
  /\ <<"o", "l", "d", ".", "y", "a", "m", "l">> \notin DOMAIN dir
  /\ <<"R", "E", "A", "D", "M", "E", ".", "m", "d">> \in DOMAIN dir
  /\ \E n \in DOMAIN dir : IsSome(dir[n])

\* the descriptor of the last emission under the name
LastEmitted(name) ==
  emitted[CHOOSE k \in 1..Len(emitted) :
            /\ emitted[k].name = name
            /\ \A j \in (k + 1)..Len(emitted) : emitted[j].name # name].action

\* C9: the collection holds one entry per name, the whole descriptor of the
\* pair emitted last under that name, and that collection is what is returned.
C9_LastEmissionWins ==
  /\ \A a, b \in 1..Len(actions) : a # b => actions[a].name # actions[b].name
  /\ \A k \in 1..Len(emitted) :
       dict_get(actions, emitted[k].name) = Some(LastEmitted(emitted[k].name))
  /\ \A k \in 1..Len(actions) : \E j \in 1..Len(emitted) : emitted[j].name = actions[k].name
  /\ IsSome(main_actions) => Val(main_actions) = actions

\* a collection was returned after two pairs were emitted under one name with
\* different descriptors
C9_Witness ==
  /\ IsSome(main_actions)
  /\ \E a, b \in 1..Len(emitted) :
       /\ a < b
       /\ emitted[a].name = emitted[b].name
       /\ emitted[a].action.endpoint_uri # emitted[b].action.endpoint_uri
       /\ emitted[a].action.parameters # emitted[b].action.parameters
       /\ dict_get(Val(main_actions), emitted[b].name) = Some(LastEmitted(emitted[b].name))

\* the pair the loop is at is a get that is no list on a path without {id}
AtPlainGet ==
  /\ pc = "for_method"
  /\ mi <= Len(spec.paths[pi].path_spec)
  /\ IsGetNotList(<<pi, mi>>)
  /\ ~ contains(spec.paths[pi].path, ID_PLACEHOLDER)

\* C10: processing a get that is no list on a path without {id} changes no
\* entry of actions, adds nothing to the deferred list and does not raise.
C10_PlainGetDropped ==
  [][ AtPlainGet =>
        /\ actions' = actions
        /\ deferred_detail_gets' = deferred_detail_gets
        /\ emitted' = emitted
        /\ pc' = "for_method"
        /\ exit_code' = exit_code
    ]_vars

\* the get of /api/status/ was processed after another path had emitted
C10_Witness ==
  /\ pc = "for_method"
  /\ mi = 2
  /\ spec.paths[pi].path = <<"/", "a", "p", "i", "/", "s", "t", "a", "t", "u", "s", "/">>
  /\ method = GET
  /\ action_name = <<"g", "e", "t", ".", "s", "t", "a", "t", "u", "s">>
  /\ actions # <<>>
  /\ dict_get(actions, action_name) = None

====
